---- MODULE Spec2Model ----
(***************************************************************************)
(* Model of app.py: the start-up build of the study schedule               *)
(* (processar_arquivos_para_hierarquia, formatar_cronograma_final) and the *)
(* two read endpoints (get_cronograma_completo, buscar).                   *)
(*                                                                         *)
(* A Python str is a sequence of one-character strings; a Python dict is a *)
(* sequence of [k, v] records in insertion order; a Python list is a       *)
(* sequence.                                                               *)
(***************************************************************************)
EXTENDS Integers, Sequences, FiniteSets, TLC

\* ------------------------------------------------------------------ bounds
MaxArquivos == 2
MaxLinhas == 2

\* ------------------------------------------------------------- characters
Maiusculas == <<"A","B","C","D","E","F","G","H","I","J","K","L","M",
                "N","O","P","Q","R","S","T","U","V","W","X","Y","Z">>
Minusculas == <<"a","b","c","d","e","f","g","h","i","j","k","l","m",
                "n","o","p","q","r","s","t","u","v","w","x","y","z">>
Pontuacao == <<" ", "(", ")", "-", "0", "1", "2", "3", "4", "5", "6", "7",
               "8", "9">>
\* the characters in code-point order: punctuation and digits, upper case,
\* "_", lower case
Alfabeto == Pontuacao \o Maiusculas \o <<"_">> \o Minusculas

PosIn(c, s) == IF \E i \in 1..Len(s) : s[i] = c
               THEN CHOOSE i \in 1..Len(s) : s[i] = c /\ \A j \in 1..(i-1) : s[j] # c
               ELSE 0

\* ord(c), up to an order-preserving renumbering
Ord(c) == PosIn(c, Alfabeto)

IsSpace(c) == c = " "
IsDigit(c) == c \in {"0","1","2","3","4","5","6","7","8","9"}

\* str.lower() on one character
LowerChar(c) == IF PosIn(c, Maiusculas) > 0 THEN Minusculas[PosIn(c, Maiusculas)] ELSE c

\* str.lower()
lower(s) == [i \in 1..Len(s) |-> LowerChar(s[i])]

\* str.strip()
strip(s) ==
    IF \A i \in 1..Len(s) : IsSpace(s[i]) THEN <<>>
    ELSE LET a == CHOOSE i \in 1..Len(s) : ~IsSpace(s[i]) /\ \A j \in 1..(i-1) : IsSpace(s[j])
             b == CHOOSE i \in 1..Len(s) : ~IsSpace(s[i]) /\ \A j \in (i+1)..Len(s) : IsSpace(s[j])
         IN SubSeq(s, a, b)

\* the Python operator  t in s  on two strings
Contem(s, t) == \E i \in 1..(Len(s) - Len(t) + 1) : SubSeq(s, i, i + Len(t) - 1) = t

\* index of the first occurrence of t in s, 0 if none (str.find, 1-based)
Find(s, t) == IF Contem(s, t)
              THEN CHOOSE i \in 1..(Len(s) - Len(t) + 1) :
                      /\ SubSeq(s, i, i + Len(t) - 1) = t
                      /\ \A j \in 1..(i-1) : SubSeq(s, j, j + Len(t) - 1) # t
              ELSE 0

\* Python's comparison of two strings: s < t
RECURSIVE StrLess(_, _)
StrLess(s, t) ==
    IF t = <<>> THEN FALSE
    ELSE IF s = <<>> THEN TRUE
    ELSE IF Ord(Head(s)) # Ord(Head(t)) THEN Ord(Head(s)) < Ord(Head(t))
    ELSE StrLess(Tail(s), Tail(t))

\* " ".join(parts)
RECURSIVE Join(_)
Join(parts) == IF parts = <<>> THEN <<>>
               ELSE IF Len(parts) = 1 THEN parts[1]
               ELSE parts[1] \o <<" ">> \o Join(Tail(parts))

\* ------------------------------------------------------ auxiliary functions
None == <<"None">>

\* the prefix of the f-string of criar_chave_semana
PrefixoSemana == <<"s","e","m","a","n","a","_">>

criar_chave_semana(semana_str) ==
    IF \E i \in 1..Len(semana_str) : IsDigit(semana_str[i])
    THEN LET a == CHOOSE i \in 1..Len(semana_str) :
                     IsDigit(semana_str[i]) /\ \A j \in 1..(i-1) : ~IsDigit(semana_str[j])
             b == CHOOSE i \in a..Len(semana_str) :
                     /\ \A j \in a..i : IsDigit(semana_str[j])
                     /\ (i = Len(semana_str) \/ ~IsDigit(semana_str[i+1]))
         IN PrefixoSemana \o SubSeq(semana_str, a, b)
    ELSE None

extrair_area_conhecimento(semana_str) ==
    LET p == Find(semana_str, <<")">>)
    IN IF p > 0 THEN strip(SubSeq(semana_str, p + 1, Len(semana_str))) ELSE <<>>

Separador == <<" ", "-", " ">>

\* the pair (tema principal, subtema)
extrair_tema_subtema(tema_completo_str) ==
    LET p == Find(tema_completo_str, Separador)
    IN IF p > 0
       THEN << strip(SubSeq(tema_completo_str, 1, p - 1)),
               strip(SubSeq(tema_completo_str, p + Len(Separador), Len(tema_completo_str))) >>
       ELSE << strip(tema_completo_str), <<>> >>

\* ------------------------------------------------------------------- dicts
DictHas(d, key) == \E i \in 1..Len(d) : d[i].k = key
DictGet(d, key, default) ==
    IF DictHas(d, key) THEN d[CHOOSE i \in 1..Len(d) : d[i].k = key].v ELSE default
\* d[key] = value
DictSet(d, key, value) ==
    IF DictHas(d, key)
    THEN [i \in 1..Len(d) |-> IF d[i].k = key THEN [k |-> key, v |-> value] ELSE d[i]]
    ELSE Append(d, [k |-> key, v |-> value])
DictValues(d) == [i \in 1..Len(d) |-> d[i].v]
DictKeys(d) == [i \in 1..Len(d) |-> d[i].k]

\* for x in seq: acc = Op(acc, x)
RECURSIVE FoldLeft(_, _, _)
FoldLeft(Op(_, _), acc, seq) ==
    IF seq = <<>> THEN acc ELSE FoldLeft(Op, Op(acc, Head(seq)), Tail(seq))

\* --------------------------------------------------------- the source files
\* One row of a data frame after astype(str): the cells the build reads.  A
\* column the file lacks reads as the empty string (row.get(..., '')).
Linha(semana, dia, tema, aula, link_aula, link_gratuito) ==
    [semana |-> semana, dia |-> dia, tema |-> tema, aula |-> aula,
     link_aula |-> link_aula, link_gratuito |-> link_gratuito]

\* "S1 (p) A": week 1, area A
SemanaUmA == <<"S","1"," ","(","p",")"," ","A">>
\* "S12(q)A ": week 12, area A
SemanaDozeA == <<"S","1","2","(","q",")","A"," ">>
\* "S1 (p) b": week 1, area b
SemanaUmB == <<"S","1"," ","(","p",")"," ","b">>
\* "S1": week 1, no parenthesized group
SemanaSemArea == <<"S","1">>
\* "S (p) A": no digit
SemanaSemNumero == <<"S"," ","(","p",")"," ","A">>

DiaSeg == <<"s","e","g">>
DiaTer == <<"T","e","r">>
TemaComSubtema == <<"T"," ","-"," ","s","u","b">>
TemaSimples == <<"C","a","r">>
TemaSemSubtema == <<"T">>
AulaUm == <<"L","1">>
AulaDois == <<"L","2">>
Url == <<"u">>
Vazio == <<>>
Branco == <<" ">>

ConjuntoLinhas == {
    Linha(SemanaUmA, DiaSeg, TemaComSubtema, AulaUm, Url, Vazio),
    Linha(SemanaDozeA, DiaSeg, TemaComSubtema, AulaUm, Vazio, Vazio),
    Linha(SemanaUmB, DiaSeg, TemaComSubtema, AulaDois, Url, Vazio),
    Linha(SemanaUmA, DiaTer, TemaSimples, AulaUm, Url, Url),
    Linha(SemanaUmA, DiaSeg, TemaSimples, AulaDois, Url, Vazio),
    Linha(SemanaUmA, DiaSeg, TemaSemSubtema, AulaUm, Url, Vazio),
    Linha(SemanaSemArea, DiaSeg, TemaComSubtema, AulaUm, Url, Vazio),
    Linha(SemanaSemNumero, DiaSeg, TemaComSubtema, AulaUm, Url, Vazio),
    Linha(SemanaUmA, Branco, TemaComSubtema, AulaUm, Url, Vazio),
    Linha(SemanaUmA, DiaSeg, Branco, AulaUm, Url, Vazio) }

\* the sequences over S of length at most n
RECURSIVE SeqsAte(_, _)
SeqsAte(S, n) ==
    IF n = 0 THEN { <<>> }
    ELSE LET menores == SeqsAte(S, n - 1)
         IN menores \cup { Append(q, x) : q \in { m \in menores : Len(m) = n - 1 }, x \in S }

\* A source file: one pandas cannot read (ok = FALSE), or its rows.
ArquivoIlegivel == [ok |-> FALSE, linhas |-> <<>>]

\* the rows of l that the assignment f gives to file i, in order
RECURSIVE LinhasDe(_, _, _)
LinhasDe(l, f, i) ==
    IF l = <<>> THEN <<>>
    ELSE LET resto == LinhasDe(Tail(l), [j \in 1..(Len(l) - 1) |-> f[j + 1]], i)
         IN IF f[1] = i THEN << Head(l) >> \o resto ELSE resto

\* The directory listings: at most maxArquivos files, each unreadable or
\* readable, holding at most maxLinhas rows between them.
Entradas(maxArquivos, maxLinhas) ==
    UNION { UNION { UNION {
        { [i \in 1..k |-> IF i \in legiveis
                           THEN [ok |-> TRUE, linhas |-> LinhasDe(l, f, i)]
                           ELSE ArquivoIlegivel] :
          f \in { g \in [1..Len(l) -> legiveis] :
                    \A a, b \in 1..Len(l) : a < b => g[a] <= g[b] } } :
        legiveis \in SUBSET (1..k) } :
        k \in 0..maxArquivos } :
        l \in SeqsAte(ConjuntoLinhas, maxLinhas) }

\* ------------------------------------------------------------- the build
\* the row loop without the test of the day label
ProcessarLinha_SemTesteDoDia(dados_brutos, row) ==
    LET semana_str == strip(row.semana)
        dia_str == strip(row.dia)
        tema_completo_str == strip(row.tema)
        chave_semana == criar_chave_semana(semana_str)
        area_conhecimento_str == extrair_area_conhecimento(semana_str)
    IN IF \/ area_conhecimento_str = <<>>
          \/ chave_semana = None
          \/ tema_completo_str = <<>>
       THEN dados_brutos
       ELSE LET par == extrair_tema_subtema(tema_completo_str)
                aula_nova == [nome |-> strip(row.aula),
                              link_aula |-> strip(row.link_aula),
                              link_gratuito |-> strip(row.link_gratuito)]
                dia_obj == [semana |-> chave_semana, nome |-> dia_str,
                            temas |-> << [nome |-> par[1],
                                          subtemas |-> << [nome |-> par[2],
                                                           aulas |-> << aula_nova >>] >>] >>]
            IN DictSet(dados_brutos, area_conhecimento_str,
                       Append(DictGet(dados_brutos, area_conhecimento_str, <<>>), dia_obj))

\* lines 96-146: one iteration of the row loop
ProcessarLinha(dados_brutos, row) ==
    LET semana_str == strip(row.semana)
        dia_str == strip(row.dia)
        tema_completo_str == strip(row.tema)
        aula_str == strip(row.aula)
        chave_semana == criar_chave_semana(semana_str)
        area_conhecimento_str == extrair_area_conhecimento(semana_str)
    IN IF \/ area_conhecimento_str = <<>>
          \/ chave_semana = None
          \/ dia_str = <<>>
          \/ tema_completo_str = <<>>
       THEN dados_brutos
       ELSE LET par == extrair_tema_subtema(tema_completo_str)
                aula_nova == [nome |-> aula_str,
                              link_aula |-> strip(row.link_aula),
                              link_gratuito |-> strip(row.link_gratuito)]
                subtema_obj == [nome |-> par[2], aulas |-> << aula_nova >>]
                tema_obj == [nome |-> par[1], subtemas |-> << subtema_obj >>]
                dia_obj == [semana |-> chave_semana, nome |-> dia_str,
                            temas |-> << tema_obj >>]
            IN DictSet(dados_brutos, area_conhecimento_str,
                       Append(DictGet(dados_brutos, area_conhecimento_str, <<>>), dia_obj))

\* the lesson appended without the membership test
ConsolidarAula_SempreAnexa(aulas, aula) == Append(aulas, aula)

\* lines 190-192
ConsolidarAula(aulas, aula) ==
    IF \E i \in 1..Len(aulas) : aulas[i] = aula THEN aulas ELSE Append(aulas, aula)

\* lines 185-192
ConsolidarSubtema(subtemas, subtema) ==
    LET subtema_key == subtema.nome
        atual == DictGet(subtemas, subtema_key, [nome |-> subtema_key, aulas |-> <<>>])
    IN DictSet(subtemas, subtema_key,
               [atual EXCEPT !.aulas = FoldLeft(ConsolidarAula, atual.aulas, subtema.aulas)])

\* the topic entry replaced by the new row's instead of merged into
ConsolidarTema_Sobrescreve(temas, tema) ==
    DictSet(temas, tema.nome,
            [nome |-> tema.nome,
             subtemas |-> FoldLeft(ConsolidarSubtema, <<>>, tema.subtemas)])

\* lines 180-192
ConsolidarTema(temas, tema) ==
    LET tema_key == tema.nome
        atual == DictGet(temas, tema_key, [nome |-> tema_key, subtemas |-> <<>>])
    IN DictSet(temas, tema_key,
               [atual EXCEPT !.subtemas = FoldLeft(ConsolidarSubtema, atual.subtemas, tema.subtemas)])

\* the week key of a day overwritten by every row of that day
ConsolidarDia_UltimaEscrita(dias_processados, dia) ==
    LET atual == DictGet(dias_processados, dia.nome,
                         [semana |-> dia.semana, nome |-> dia.nome, temas |-> <<>>])
    IN DictSet(dias_processados, dia.nome,
               [semana |-> dia.semana, nome |-> dia.nome,
                temas |-> FoldLeft(ConsolidarTema, atual.temas, dia.temas)])

\* lines 164-192
ConsolidarDia(dias_processados, dia) ==
    LET dia_key == dia.nome
        atual == DictGet(dias_processados, dia_key,
                         [semana |-> dia.semana, nome |-> dia.nome, temas |-> <<>>])
    IN DictSet(dias_processados, dia_key,
               [atual EXCEPT !.temas = FoldLeft(ConsolidarTema, atual.temas, dia.temas)])

\* lines 196-203: the nested dicts back to lists
TemaFinal(tema_obj) == [nome |-> tema_obj.nome, subtemas |-> DictValues(tema_obj.subtemas)]
DiaFinal(dia) ==
    [semana |-> dia.semana, nome |-> dia.nome,
     temas |-> [i \in 1..Len(dia.temas) |-> TemaFinal(dia.temas[i].v)]]

\* seq with x inserted before the first element of a greater name
RECURSIVE InserirPorNome(_, _)
InserirPorNome(seq, x) ==
    IF seq = <<>> THEN << x >>
    ELSE IF StrLess(x.nome, Head(seq).nome) THEN << x >> \o seq
    ELSE << Head(seq) >> \o InserirPorNome(Tail(seq), x)

\* the days of one area sorted by name
DiasFinais_Ordenados(dias_lista) ==
    LET dias_processados == FoldLeft(ConsolidarDia, <<>>, dias_lista)
    IN FoldLeft(InserirPorNome, <<>>,
                [i \in 1..Len(dias_processados) |-> DiaFinal(dias_processados[i].v)])

\* lines 160-205: the days of one area
DiasFinais(dias_lista) ==
    LET dias_processados == FoldLeft(ConsolidarDia, <<>>, dias_lista)
    IN [i \in 1..Len(dias_processados) |-> DiaFinal(dias_processados[i].v)]

ChaveCronograma == <<"c","r","o","n","o","g","r","a","m","a">>

formatar_cronograma_final(dados_brutos) ==
    LET cronograma_ordenado ==
            [i \in 1..Len(dados_brutos) |->
                [k |-> dados_brutos[i].k, v |-> DiasFinais(dados_brutos[i].v)]]
    IN << [k |-> ChaveCronograma, v |-> cronograma_ordenado] >>

\* the file loop going on after a file that cannot be read
ProcessarArquivo_Continua(estado, arquivo) ==
    IF ~arquivo.ok \/ arquivo.linhas = <<>> THEN estado
    ELSE << FALSE, FoldLeft(ProcessarLinha, estado[2], arquivo.linhas) >>

\* lines 80-150: the loop over the files; the result is the pair
\* (the build was abandoned, dados_brutos)
ProcessarArquivo(estado, arquivo) ==
    IF estado[1] THEN estado
    ELSE IF ~arquivo.ok THEN << TRUE, estado[2] >>
    ELSE IF arquivo.linhas = <<>> THEN estado
    ELSE << FALSE, FoldLeft(ProcessarLinha, estado[2], arquivo.linhas) >>

processar_arquivos_para_hierarquia(arquivos) ==
    IF arquivos = <<>> THEN <<>>
    ELSE LET fim == FoldLeft(ProcessarArquivo, << FALSE, <<>> >>, arquivos)
         IN IF fim[1] THEN <<>> ELSE formatar_cronograma_final(fim[2])


\* ---------------------------------------------------------------- search
\* lines 270-276 and 282-288: a match of a whole day
ResultadoDia(area_conhecimento, dia) ==
    [semana |-> dia.semana, dia |-> dia.nome, area_conhecimento |-> area_conhecimento,
     temas |-> dia.temas, aula_encontrada |-> <<>>]

\* lines 296-303: a match of one lesson
ResultadoAula(area_conhecimento, dia, tema, subtema, aula) ==
    [area_conhecimento |-> area_conhecimento, semana |-> dia.semana, dia |-> dia.nome,
     tema |-> tema.nome, subtema |-> subtema.nome, aula_encontrada |-> aula]

\* line 294
caminho_completo(area_busca, dia, tema, subtema, aula) ==
    lower(Join(<< area_busca, dia.nome, tema.nome, subtema.nome, aula.nome >>))

\* lines 290-303: the lessons of one day whose path contains the term
BuscarAulas(termo, area_conhecimento, dia) ==
    LET area_busca == lower(area_conhecimento)
        NoSubtema(tema, subtema) ==
            LET Passo(acc, aula) ==
                    IF Contem(caminho_completo(area_busca, dia, tema, subtema, aula), termo)
                    THEN Append(acc, ResultadoAula(area_conhecimento, dia, tema, subtema, aula))
                    ELSE acc
            IN FoldLeft(Passo, <<>>, subtema.aulas)
        NoTema(tema) ==
            LET Passo(acc, subtema) == acc \o NoSubtema(tema, subtema)
            IN FoldLeft(Passo, <<>>, tema.subtemas)
        PassoTema(acc, tema) == acc \o NoTema(tema)
    IN FoldLeft(PassoTema, <<>>, dia.temas)

\* the day rule falling through to the lessons of the day
BuscarDia_SemContinue(termo, area_conhecimento, dia) ==
    IF Contem(lower(dia.nome), termo)
    THEN << ResultadoDia(area_conhecimento, dia) >> \o BuscarAulas(termo, area_conhecimento, dia)
    ELSE BuscarAulas(termo, area_conhecimento, dia)

\* lines 279-303: one day of an area whose name does not contain the term
BuscarDia(termo, area_conhecimento, dia) ==
    IF Contem(lower(dia.nome), termo)
    THEN << ResultadoDia(area_conhecimento, dia) >>
    ELSE BuscarAulas(termo, area_conhecimento, dia)

\* the area rule comparing the area as written, not lower-cased
BuscarArea_SemLower(termo, area_conhecimento, dias) ==
    IF Contem(area_conhecimento, termo)
    THEN [i \in 1..Len(dias) |-> ResultadoDia(area_conhecimento, dias[i])]
    ELSE LET Passo(acc, dia) == acc \o BuscarDia(termo, area_conhecimento, dia)
         IN FoldLeft(Passo, <<>>, dias)

\* lines 263-303: one item of the schedule
BuscarArea(termo, area_conhecimento, dias) ==
    IF Contem(lower(area_conhecimento), termo)
    THEN [i \in 1..Len(dias) |-> ResultadoDia(area_conhecimento, dias[i])]
    ELSE LET Passo(acc, dia) == acc \o BuscarDia(termo, area_conhecimento, dia)
         IN FoldLeft(Passo, <<>>, dias)

\* lines 261-305: the list resultados
Resultados(cronograma, termo) ==
    LET Passo(acc, item) == acc \o BuscarArea(termo, item.k, item.v)
    IN FoldLeft(Passo, <<>>, DictGet(cronograma, ChaveCronograma, <<>>))

\* the values of the query parameter q (a request without q reads as '')
Termos == { <<>>, <<"A">>, <<"T">>, <<"s","u","b">>, <<"L","1">>,
            <<"s","e","m","a","n","a","_","1">> }

\* ------------------------------------------------------------ the process
VARIABLES arquivos, pc, cronograma_final, resposta

vars == << arquivos, pc, cronograma_final, resposta >>

SemResposta == [rota |-> "nenhuma", q |-> <<>>, status |-> 0, corpo |-> <<>>]

\* the module imported up to line 23, over any directory listing
InitConstrucao ==
    /\ arquivos \in Entradas(MaxArquivos, MaxLinhas)
    /\ pc = "importando"
    /\ cronograma_final = <<>>
    /\ resposta = SemResposta

\* The directory listings of the serving process.  The endpoints read
\* cronograma_final alone, so the rows come from one readable file; no file
\* and one unreadable file give the two empty schedules.
EntradasServico(maxLinhas) ==
    { <<>>, << ArquivoIlegivel >> }
        \cup { << [ok |-> TRUE, linhas |-> l] >> : l \in SeqsAte(ConjuntoLinhas, maxLinhas) }

Init ==
    /\ arquivos \in EntradasServico(MaxLinhas)
    /\ pc = "importando"
    /\ cronograma_final = <<>>
    /\ resposta = SemResposta

\* lines 325-326
Inicializacao ==
    /\ pc = "importando"
    /\ cronograma_final' = processar_arquivos_para_hierarquia(arquivos)
    /\ pc' = "servindo"
    /\ UNCHANGED << arquivos, resposta >>

\* lines 223-236; corpo is the value handed to jsonify
get_cronograma_completo ==
    /\ pc = "servindo"
    /\ resposta' = [rota |-> "cronograma", q |-> <<>>, status |-> 200,
                    corpo |-> cronograma_final]
    /\ UNCHANGED << arquivos, pc, cronograma_final >>

\* a search that empties the schedule when it rejects the request
buscar_LimpaCronograma(q) ==
    /\ pc = "servindo"
    /\ LET termo == lower(q)
       IN /\ resposta' = IF termo = <<>>
                         THEN [rota |-> "buscar", q |-> q, status |-> 400, corpo |-> <<>>]
                         ELSE [rota |-> "buscar", q |-> q, status |-> 200,
                               corpo |-> Resultados(cronograma_final, termo)]
          /\ cronograma_final' = IF termo = <<>> THEN <<>> ELSE cronograma_final
    /\ UNCHANGED << arquivos, pc >>

\* lines 238-305
buscar(q) ==
    /\ pc = "servindo"
    /\ LET termo == lower(q)
       IN resposta' = IF termo = <<>>
                      THEN [rota |-> "buscar", q |-> q, status |-> 400, corpo |-> <<>>]
                      ELSE [rota |-> "buscar", q |-> q, status |-> 200,
                            corpo |-> Resultados(cronograma_final, termo)]
    /\ UNCHANGED << arquivos, pc, cronograma_final >>

Next ==
    \/ Inicializacao
    \/ get_cronograma_completo
    \/ \E q \in Termos : buscar(q)

\* the process: start-up, then requests in any order
Spec == Init /\ [][Next]_vars

\* the start-up build alone, over every directory listing
NextConstrucao == Inicializacao
SpecConstrucao == InitConstrucao /\ [][NextConstrucao]_vars


\* ------------------------------------------------- vocabulary of the claims
Construido == pc = "servindo"
TemFalha == \E i \in 1..Len(arquivos) : ~arquivos[i].ok

\* the rows of the readable files, in processing order
LinhasLidas ==
    LET Passo(acc, arquivo) == IF arquivo.ok THEN acc \o arquivo.linhas ELSE acc
    IN FoldLeft(Passo, <<>>, arquivos)

\* the items (area, days) of the schedule served
Grupos == DictGet(cronograma_final, ChaveCronograma, <<>>)

ChaveDe(row) == criar_chave_semana(strip(row.semana))
AreaDe(row) == extrair_area_conhecimento(strip(row.semana))
DiaDe(row) == strip(row.dia)
TemaDe(row) == extrair_tema_subtema(strip(row.tema))[1]
SubtemaDe(row) == extrair_tema_subtema(strip(row.tema))[2]
AulaDe(row) == [nome |-> strip(row.aula), link_aula |-> strip(row.link_aula),
                link_gratuito |-> strip(row.link_gratuito)]

TemDigito(s) == \E i \in 1..Len(s) : IsDigit(s[i])
EmBranco(s) == \A i \in 1..Len(s) : IsSpace(s[i])

\* a row the spec calls well formed: day, combined topic and week number
BemFormada(row) == ~EmBranco(row.dia) /\ ~EmBranco(row.tema) /\ TemDigito(row.semana)
\* a well-formed row whose week label also has text after its first ")"
Aceita(row) == BemFormada(row) /\ AreaDe(row) # <<>>

\* seq without the repetitions of its elements, in order of first occurrence
RECURSIVE PrimeirasOcorrencias(_)
PrimeirasOcorrencias(seq) ==
    IF seq = <<>> THEN <<>>
    ELSE LET antes == PrimeirasOcorrencias(SubSeq(seq, 1, Len(seq) - 1))
             x == seq[Len(seq)]
         IN IF \E i \in 1..Len(antes) : antes[i] = x THEN antes ELSE Append(antes, x)

Nomes(seq) == [i \in 1..Len(seq) |-> seq[i].nome]
SemRepeticao(seq) == \A i, j \in 1..Len(seq) : seq[i] = seq[j] => i = j
Crescente(nomes) ==
    \A i \in 1..(Len(nomes) - 1) : nomes[i] = nomes[i + 1] \/ StrLess(nomes[i], nomes[i + 1])

\* the accepted rows read, in processing order
LinhasAceitas == SelectSeq(LinhasLidas, Aceita)

\* arquivos without row j of file i
SemLinha(i, j) ==
    [arquivos EXCEPT ![i].linhas =
        SubSeq(arquivos[i].linhas, 1, j - 1)
            \o SubSeq(arquivos[i].linhas, j + 1, Len(arquivos[i].linhas))]

\* ------------------------------------------------------------------- C1
\* C1 as stated: a file that cannot be read contributes no rows and the
\* build goes on, so the schedule is the one built from the readable files.
C1_ArquivoIlegivelIgnorado ==
    Construido =>
        cronograma_final =
            processar_arquivos_para_hierarquia(SelectSeq(arquivos, LAMBDA a : a.ok))

\* C1 as amended: when some file cannot be read or parsed the whole build is
\* abandoned: the schedule is the empty mapping (no "cronograma" key), and
\* the rows of the files read before and after the failing one are lost.
C1_FalhaAbandonaConstrucao ==
    (Construido /\ TemFalha) => cronograma_final = <<>>

C1_Witness ==
    /\ Construido
    /\ Len(arquivos) = 2
    /\ arquivos[1].ok /\ \E j \in 1..Len(arquivos[1].linhas) : Aceita(arquivos[1].linhas[j])
    /\ ~arquivos[2].ok

AulasDasLinhas(area, dia, tema, subtema) ==
    LET Passo(acc, row) ==
            IF /\ AreaDe(row) = area /\ DiaDe(row) = dia
               /\ TemaDe(row) = tema /\ SubtemaDe(row) = subtema
            THEN Append(acc, AulaDe(row)) ELSE acc
    IN FoldLeft(Passo, <<>>, LinhasAceitas)

\* C3: no lesson list holds two lessons equal in nome, link_aula and
\* link_gratuito; the list of a subtopic is the lessons of its rows, each
\* distinct lesson once, in the order of its first row.
C3_AulasSemDuplicata ==
    Construido =>
        \A g \in 1..Len(Grupos) : \A d \in 1..Len(Grupos[g].v) :
            \A t \in 1..Len(Grupos[g].v[d].temas) :
                \A st \in 1..Len(Grupos[g].v[d].temas[t].subtemas) :
                    LET dia == Grupos[g].v[d]
                        tema == dia.temas[t]
                        subtema == tema.subtemas[st]
                    IN /\ SemRepeticao(subtema.aulas)
                       /\ subtema.aulas =
                            PrimeirasOcorrencias(
                                AulasDasLinhas(Grupos[g].k, dia.nome, tema.nome, subtema.nome))

C3_Witness ==
    /\ Construido /\ ~TemFalha
    /\ Len(LinhasAceitas) = 2
    /\ LinhasAceitas[1] = LinhasAceitas[2]
    /\ Len(Grupos) = 1
    /\ Len(Grupos[1].v[1].temas[1].subtemas[1].aulas) = 1

\* ------------------------------------------------------------------- C4
\* C4 as stated: the days of every entry are in lexicographic order of name
\* and so are the topics of every day, whatever the order of the rows.
C4_SaidaOrdenada ==
    Construido =>
        \A g \in 1..Len(Grupos) :
            /\ Crescente(Nomes(Grupos[g].v))
            /\ \A d \in 1..Len(Grupos[g].v) : Crescente(Nomes(Grupos[g].v[d].temas))

\* C4 as amended: nothing is sorted.  The areas are listed in the order of
\* the first accepted row of each, the days of an area in the order of the
\* first accepted row of each day name in that area, the topics of a day in
\* the order of their first row; the output order follows the row order.
C4_OrdemDePrimeiraOcorrencia ==
    (Construido /\ ~TemFalha) =>
        /\ DictKeys(Grupos) =
              PrimeirasOcorrencias([n \in 1..Len(LinhasAceitas) |-> AreaDe(LinhasAceitas[n])])
        /\ \A g \in 1..Len(Grupos) :
              LET daArea == SelectSeq(LinhasAceitas, LAMBDA r : AreaDe(r) = Grupos[g].k)
              IN /\ Nomes(Grupos[g].v) =
                      PrimeirasOcorrencias([n \in 1..Len(daArea) |-> DiaDe(daArea[n])])
                 /\ \A d \in 1..Len(Grupos[g].v) :
                      LET doDia == SelectSeq(daArea, LAMBDA r : DiaDe(r) = Grupos[g].v[d].nome)
                      IN Nomes(Grupos[g].v[d].temas) =
                            PrimeirasOcorrencias([n \in 1..Len(doDia) |-> TemaDe(doDia[n])])

C4_Witness ==
    /\ Construido
    /\ \E g \in 1..Len(Grupos) :
          /\ Len(Grupos[g].v) >= 2
          /\ StrLess(Grupos[g].v[2].nome, Grupos[g].v[1].nome)


\* ------------------------------------------------------------------- C5
\* a row the spec says is skipped: blank day, blank combined topic, or a
\* week label without a digit
Descartavel(row) == EmBranco(row.dia) \/ EmBranco(row.tema) \/ ~TemDigito(row.semana)

\* C5: a row with a blank day, a blank combined topic or a week label
\* without a digit adds nothing and does not stop the build: the schedule is
\* the one built from the same files without that row.
C5_LinhaDescartada ==
    Construido =>
        \A i \in 1..Len(arquivos) : \A j \in 1..Len(arquivos[i].linhas) :
            Descartavel(arquivos[i].linhas[j]) =>
                cronograma_final = processar_arquivos_para_hierarquia(SemLinha(i, j))

C5_Witness ==
    /\ Construido /\ ~TemFalha
    /\ Len(LinhasLidas) = 2
    /\ Descartavel(LinhasLidas[1]) /\ EmBranco(LinhasLidas[1].dia)
    /\ Aceita(LinhasLidas[2])
    /\ Len(Grupos) = 1 /\ Len(Grupos[1].v) = 1

\* ------------------------------------------------------------------- C6
RespostaDeBusca == resposta.rota = "buscar" /\ resposta.status = 200
NivelDia(r) == "temas" \in DOMAIN r
NivelAula(r) == "tema" \in DOMAIN r

\* the matches of the response that name the day dia of the area
ResultadosDoDia(area, dia) ==
    SelectSeq(resposta.corpo, LAMBDA r : r.area_conhecimento = area /\ r.dia = dia.nome)

\* C6 as stated: a term found in the week composite (here in the week key or
\* in the topic area, two parts of it) yields one whole-day match for every
\* day of that week and no other match for them.
C6_CompostoDaSemana ==
    RespostaDeBusca =>
        \A g \in 1..Len(Grupos) : \A d \in 1..Len(Grupos[g].v) :
            LET dia == Grupos[g].v[d]
            IN (\/ Contem(lower(dia.semana), lower(resposta.q))
                \/ Contem(lower(Grupos[g].k), lower(resposta.q))) =>
                   /\ Len(ResultadosDoDia(Grupos[g].k, dia)) = 1
                   /\ NivelDia(ResultadosDoDia(Grupos[g].k, dia)[1])

\* C6 as amended: the first rule looks at the topic area alone.  When the
\* lower-cased term is a substring of the lower-cased area of an entry, the
\* matches of that area are exactly one per day, in order: the day's week
\* key, its name, the area, its full topic list and an empty lesson field.
\* The week key, the week label and the period are not searched.
C6_RegraDaArea ==
    RespostaDeBusca =>
        \A g \in 1..Len(Grupos) :
            Contem(lower(Grupos[g].k), lower(resposta.q)) =>
                SelectSeq(resposta.corpo, LAMBDA r : r.area_conhecimento = Grupos[g].k)
                  = [d \in 1..Len(Grupos[g].v) |->
                        [semana |-> Grupos[g].v[d].semana, dia |-> Grupos[g].v[d].nome,
                         area_conhecimento |-> Grupos[g].k,
                         temas |-> Grupos[g].v[d].temas, aula_encontrada |-> <<>>]]

C6_Witness ==
    /\ RespostaDeBusca
    /\ \E g \in 1..Len(Grupos) :
          /\ Contem(lower(Grupos[g].k), lower(resposta.q))
          /\ Grupos[g].k # lower(Grupos[g].k)
          /\ Len(Grupos[g].v) = 2
          /\ Len(resposta.corpo) = 2

\* ------------------------------------------------------------------- C7
\* the (topic, subtopic, lesson) positions of a day whose path holds the term
FolhasComTermo(area, dia, termo) ==
    UNION { UNION {
        { << t, st, a >> : a \in { b \in 1..Len(dia.temas[t].subtemas[st].aulas) :
            Contem(lower(Join(<< area, dia.nome, dia.temas[t].nome,
                                 dia.temas[t].subtemas[st].nome,
                                 dia.temas[t].subtemas[st].aulas[b].nome >>)), termo) } } :
        st \in 1..Len(dia.temas[t].subtemas) } :
        t \in 1..Len(dia.temas) }

\* C7: in an entry the first rule did not match, a day whose name holds the
\* term gives one whole-day match and no lesson match; any other day gives
\* no whole-day match and one lesson match for each (topic, subtopic,
\* lesson) whose path holds the term.  No day has matches of both kinds.
C7_PrimeiraRegraPorDia ==
    RespostaDeBusca =>
        \A g \in 1..Len(Grupos) :
            ~Contem(lower(Grupos[g].k), lower(resposta.q)) =>
                \A d \in 1..Len(Grupos[g].v) :
                    LET dia == Grupos[g].v[d]
                        rs == ResultadosDoDia(Grupos[g].k, dia)
                        folhas == FolhasComTermo(Grupos[g].k, dia, lower(resposta.q))
                    IN /\ ~(\E i, j \in 1..Len(rs) : NivelDia(rs[i]) /\ NivelAula(rs[j]))
                       /\ IF Contem(lower(dia.nome), lower(resposta.q))
                          THEN Len(rs) = 1 /\ NivelDia(rs[1])
                          ELSE /\ \A i \in 1..Len(rs) : NivelAula(rs[i])
                               /\ Len(rs) = Cardinality(folhas)
                               /\ \A f \in folhas :
                                    \E i \in 1..Len(rs) :
                                        /\ rs[i].tema = dia.temas[f[1]].nome
                                        /\ rs[i].subtema = dia.temas[f[1]].subtemas[f[2]].nome
                                        /\ rs[i].aula_encontrada =
                                              dia.temas[f[1]].subtemas[f[2]].aulas[f[3]]

C7_Witness ==
    /\ RespostaDeBusca
    /\ Len(Grupos) = 1 /\ Len(Grupos[1].v) = 2
    /\ ~Contem(lower(Grupos[1].k), lower(resposta.q))
    /\ Len(resposta.corpo) = 2
    /\ \E i, j \in 1..2 : NivelDia(resposta.corpo[i]) /\ NivelAula(resposta.corpo[j])

\* ------------------------------------------------------------------- C8
\* C8: once the start-up build is over, no request, accepted or rejected,
\* changes the schedule.
C8_CronogramaSomenteLeitura ==
    [][Construido => cronograma_final' = cronograma_final]_vars

C8_Witness ==
    /\ Construido
    /\ resposta.rota = "buscar" /\ resposta.status = 400
    /\ Len(Grupos) >= 1

\* ------------------------------------------------------------------- C9
\* C9: a day entry holds only what rows of its own week gave it: every
\* lesson under a day comes from an accepted row with the week key of that
\* day, its area, its name, and the lesson's topic and subtopic.
C9_DiaNoEscopoDaSemana ==
    Construido =>
        \A g \in 1..Len(Grupos) : \A d \in 1..Len(Grupos[g].v) :
            \A t \in 1..Len(Grupos[g].v[d].temas) :
                \A st \in 1..Len(Grupos[g].v[d].temas[t].subtemas) :
                    \A a \in 1..Len(Grupos[g].v[d].temas[t].subtemas[st].aulas) :
                        LET dia == Grupos[g].v[d]
                            tema == dia.temas[t]
                            subtema == tema.subtemas[st]
                        IN \E n \in 1..Len(LinhasAceitas) :
                              /\ ChaveDe(LinhasAceitas[n]) = dia.semana
                              /\ AreaDe(LinhasAceitas[n]) = Grupos[g].k
                              /\ DiaDe(LinhasAceitas[n]) = dia.nome
                              /\ TemaDe(LinhasAceitas[n]) = tema.nome
                              /\ SubtemaDe(LinhasAceitas[n]) = subtema.nome
                              /\ AulaDe(LinhasAceitas[n]) = subtema.aulas[a]

\* ------------------------------------------------------------------ C10
\* C10 as stated: when every file is readable, every row with a day, a
\* combined topic and a week number has its lesson in the schedule under its
\* week key, day, topic and subtopic, also when its week label has no
\* parenthesized group.
C10_NenhumaLinhaPerdida ==
    (Construido /\ ~TemFalha) =>
        \A n \in 1..Len(LinhasLidas) :
            BemFormada(LinhasLidas[n]) =>
                \E g \in 1..Len(Grupos) : \E d \in 1..Len(Grupos[g].v) :
                    \E t \in 1..Len(Grupos[g].v[d].temas) :
                        \E st \in 1..Len(Grupos[g].v[d].temas[t].subtemas) :
                            LET dia == Grupos[g].v[d]
                                tema == dia.temas[t]
                                subtema == tema.subtemas[st]
                                row == LinhasLidas[n]
                            IN /\ dia.semana = ChaveDe(row)
                               /\ dia.nome = DiaDe(row)
                               /\ tema.nome = TemaDe(row)
                               /\ subtema.nome = SubtemaDe(row)
                               /\ \E a \in 1..Len(subtema.aulas) : subtema.aulas[a] = AulaDe(row)

\* C10 as amended: when every file is readable, every row with a day, a
\* combined topic, a week number and a non-empty topic area (text after the
\* first ")" of the week label) has its lesson in the schedule under its
\* area, day, topic and subtopic.  A row whose week label has no
\* parenthesized group, or nothing after it, is dropped.
C10_LinhaAceitaPresente ==
    (Construido /\ ~TemFalha) =>
        /\ \A n \in 1..Len(LinhasLidas) :
              Aceita(LinhasLidas[n]) =>
                \E g \in 1..Len(Grupos) :
                    /\ Grupos[g].k = AreaDe(LinhasLidas[n])
                    /\ \E d \in 1..Len(Grupos[g].v) :
                        \E t \in 1..Len(Grupos[g].v[d].temas) :
                            \E st \in 1..Len(Grupos[g].v[d].temas[t].subtemas) :
                                LET dia == Grupos[g].v[d]
                                    tema == dia.temas[t]
                                    subtema == tema.subtemas[st]
                                    row == LinhasLidas[n]
                                IN /\ dia.nome = DiaDe(row)
                                   /\ tema.nome = TemaDe(row)
                                   /\ subtema.nome = SubtemaDe(row)
                                   /\ \E a \in 1..Len(subtema.aulas) :
                                         subtema.aulas[a] = AulaDe(row)
        /\ \A i \in 1..Len(arquivos) : \A j \in 1..Len(arquivos[i].linhas) :
              AreaDe(arquivos[i].linhas[j]) = <<>> =>
                  cronograma_final = processar_arquivos_para_hierarquia(SemLinha(i, j))

C10_Witness ==
    /\ Construido /\ ~TemFalha
    /\ Len(LinhasLidas) = 2
    /\ Aceita(LinhasLidas[1])
    /\ BemFormada(LinhasLidas[2]) /\ ~Aceita(LinhasLidas[2])
    /\ Len(Grupos) = 1 /\ Len(Grupos[1].v) = 1


====
